---- MODULE Spec2Model ----
(***************************************************************************)
(* A model of two parts of the framework:                                  *)
(*   - esmerald/core/urls/base.py: include(), the dynamic route-table      *)
(*     lookup (specification SpecInclude);                                 *)
(*   - esmerald/_openapi/openapi.py: get_openapi(), the OpenAPI document   *)
(*     builder, as a walk over a route tree (specifications Spec, SpecOp). *)
(***************************************************************************)
EXTENDS Integers, Sequences, FiniteSets, TLC

VARIABLES
    \* ---- include() ----
    arg,            \* the first argument of include(), any Python value
    pattern,        \* the second argument, or the marker of an omitted argument
    sys_modules,    \* the importable modules: module name -> attribute table
    imported,       \* the names import_module() was called with
    outcome,        \* how the call ended
    \* ---- get_openapi() ----
    routes,         \* the route tree passed to get_openapi
    pc,             \* position in get_openapi
    stack,          \* the frames of iterate_routes, innermost last
    all_fields,     \* the list returned by get_fields_from_routes
    definitions,    \* the definitions dict
    components,     \* the components dict
    paths,          \* the paths dict
    operation_ids,  \* the set of seen operation ids
    warnings,       \* the warnings emitted so far
    output          \* the assembled document

includeVars == <<arg, pattern, sys_modules, imported, outcome>>
openapiVars == <<routes, pc, stack, all_fields, definitions, components, paths,
                 operation_ids, warnings, output>>
vars == <<arg, pattern, sys_modules, imported, outcome, routes, pc, stack, all_fields,
          definitions, components, paths, operation_ids, warnings, output>>

(***************************************************************************)
(* Python values and dicts                                                 *)
(***************************************************************************)

\* A Python value: its type and, for a container or a string, its items.
PyStr(s) == [type |-> "str", items |-> <<s>>]
PyEmptyStr == [type |-> "str", items |-> <<>>]
PyNone == [type |-> "NoneType", items |-> <<>>]
PyList(xs) == [type |-> "list", items |-> xs]
PyTuple(xs) == [type |-> "tuple", items |-> xs]
PyInt(n) == [type |-> "int", items |-> IF n = 0 THEN <<>> ELSE <<n>>]

\* bool(v): None, 0 and the empty containers and string are falsy.
Truthy(v) == v.type # "NoneType" /\ Len(v.items) > 0

\* The empty dict, and d.update(e) on dicts modelled as functions.
EmptyDict == [k \in {} |-> 0]
DictUpdate(d, e) ==
    [k \in DOMAIN d \cup DOMAIN e |-> IF k \in DOMAIN e THEN e[k] ELSE d[k]]

(***************************************************************************)
(* include()                                                               *)
(***************************************************************************)

DEFAULT_PATTERN == "route_patterns"

\* The marker of an argument the caller left out.
Omitted == [type |-> "omitted", items |-> <<>>]
\* The marker of an attribute a module does not define.
Absent == [type |-> "absent", items |-> <<>>]

AttrNames == {"route_patterns", "router_patterns", "myapp_urls"}
MaxListLen == 2
RouteNames == <<"r1", "r2", "r3", "r4">>
ListsUpTo(n) == {PyList(SubSeq(RouteNames, 1, k)) : k \in 0..n}
AttrValues == ListsUpTo(MaxListLen) \cup
              {Absent, PyNone, PyTuple(<<>>), PyTuple(<<"r1">>), PyInt(0), PyInt(5)}
ModuleNames == {"myapp.routes"}
ArgValues == {PyStr("myapp.routes"), PyStr("missing.module"), PyEmptyStr, PyInt(7),
              PyNone, PyList(<<"myapp.routes">>)}
PatternValues == {Omitted, PyNone, PyEmptyStr} \cup {PyStr(a) : a \in AttrNames}

\* The pattern parameter after the default of the signature is applied.
PatternParam(p) == IF p = Omitted THEN PyStr(DEFAULT_PATTERN) ELSE p

\* pattern or DEFAULT_PATTERN
PatternName(p) == IF Truthy(p) THEN p.items[1] ELSE DEFAULT_PATTERN

\* getattr(module, name, None)
GetAttr(mod, name) ==
    IF name \in DOMAIN mod /\ mod[name] # Absent THEN mod[name] ELSE PyNone

Raised(exc) == [kind |-> "raise", exc |-> exc, value |-> PyNone]
Returned(v) == [kind |-> "return", exc |-> "", value |-> v]
Pending == [kind |-> "pending", exc |-> "", value |-> PyNone]

\* import_module(name): the module, or the exception the interpreter raises for an
\* empty name or for a name no module has.
ImportFails(a, mods) == ~Truthy(a) \/ a.items[1] \notin DOMAIN mods
ImportError(a) == IF Truthy(a) THEN "ModuleNotFoundError" ELSE "ValueError"

\* The module names import_module() is called with.
include_imports(a, mods) == IF a.type # "str" THEN {} ELSE {a}

\* The result of include(a, p) with the importable modules mods.
include_NoListCheck(a, p, mods) ==
    IF a.type # "str" THEN Raised("ImproperlyConfigured")
    ELSE IF ImportFails(a, mods) THEN Raised(ImportError(a))
    ELSE LET patterns == GetAttr(mods[a.items[1]], PatternName(PatternParam(p))) IN
         IF ~Truthy(patterns) THEN Raised("ImproperlyConfigured")
         ELSE Returned(patterns)
include(a, p, mods) ==
    IF a.type # "str" THEN Raised("ImproperlyConfigured")
    ELSE IF ImportFails(a, mods) THEN Raised(ImportError(a))
    ELSE LET patterns == GetAttr(mods[a.items[1]], PatternName(PatternParam(p))) IN
         IF ~Truthy(patterns) THEN Raised("ImproperlyConfigured")
         ELSE IF patterns.type # "list" THEN Raised("ImproperlyConfigured")
         ELSE Returned(patterns)

(***************************************************************************)
(* Paths, methods and status keys: strings as the code transforms them     *)
(***************************************************************************)

\* A path is the sequence of its characters.
PathX == <<"/", "x">>
PathA == <<"/", "a">>
PathB == <<"/", "b">>
PathAX == <<"/", "a", "/", "x">>
PathASlash == <<"/", "a", "/">>

RECURSIVE RStripSlash(_)
RStripSlash(p) ==
    IF p # <<>> /\ p[Len(p)] = "/" THEN RStripSlash(SubSeq(p, 1, Len(p) - 1)) ELSE p

RECURSIVE CollapseSlashes(_)
CollapseSlashes(p) ==
    IF Len(p) < 2 THEN p
    ELSE IF p[1] = "/" /\ p[2] = "/" THEN CollapseSlashes(Tail(p))
    ELSE <<p[1]>> \o CollapseSlashes(Tail(p))

\* clean_path: no trailing slash, one leading slash, no run of slashes.
clean_path(p) ==
    LET stripped == RStripSlash(p)
        rooted == IF stripped = <<>> \/ stripped[1] # "/" THEN <<"/">> \o stripped
                  ELSE stripped
    IN CollapseSlashes(rooted)

METHODS_WITH_BODY == {"GET", "HEAD", "POST", "PUT", "DELETE", "PATCH"}

\* method.lower()
Lower(m) ==
    CASE m = "GET" -> "get"
      [] m = "POST" -> "post"
      [] m = "OPTIONS" -> "options"
      [] OTHER -> m

\* str(code).upper()
Upper(k) ==
    CASE k = "4xx" -> "4XX"
      [] k = "default" -> "DEFAULT"
      [] k = "Default" -> "DEFAULT"
      [] OTHER -> k

\* status_code_ranges.get(key): "" stands for None.
status_code_ranges(k) ==
    CASE k = "4XX" -> "Client Error"
      [] k = "DEFAULT" -> "Default Response"
      [] OTHER -> ""

\* http.client.responses.get(int(code)): "" stands for None.
http_client_responses(k) ==
    CASE k = "200" -> "OK"
      [] k = "201" -> "Created"
      [] k = "404" -> "Not Found"
      [] k = "422" -> "Unprocessable Entity"
      [] OTHER -> ""

\* name.replace("_", " ").title()
Title(name) ==
    CASE name = "list_items" -> "List Items"
      [] name = "create_item" -> "Create Item"
      [] name = "ping" -> "Ping"
      [] name = "secret" -> "Secret"
      [] OTHER -> name

http422 == "422"
REF_PREFIX == "#/components/schemas/"

Range(seq) == {seq[i] : i \in 1..Len(seq)}
DictSet(d, k, v) == DictUpdate(d, k :> v)
DictGet(d, k, default) == IF k \in DOMAIN d THEN d[k] ELSE default
\* x or y on strings, "" being falsy
Or(x, y) == IF x # "" THEN x ELSE y

(***************************************************************************)
(* Fields, handlers and routes                                             *)
(***************************************************************************)

\* A FieldInfo: a parameter (in_ is path, query, cookie or header) or a body.
Field(id, in, alias, required, inSchema, media, model) ==
    [id |-> id, in_ |-> in, alias |-> alias, required |-> required,
     include_in_schema |-> inSchema, media_type |-> media, model |-> model]
\* handler.data_field of a handler with no data parameter
NoField == Field("none", "none", "", FALSE, FALSE, "", "")

\* An additional response of a handler: handler.responses[code].
Response(code, description, model) ==
    [code |-> code, description |-> description, status_text |-> "", model |-> model]

Handler(name, inSchema, opid, pp, qp, cp, hp, data, status, responses, security) ==
    [name |-> name, include_in_schema |-> inSchema, operation_id |-> opid,
     tags |-> <<>>, summary |-> "", description |-> "", deprecated |-> FALSE,
     path_params |-> pp, query_params |-> qp, cookie_params |-> cp,
     header_params |-> hp, data_field |-> data, status_code |-> status,
     response_description |-> "Successful Response", responses |-> responses,
     security |-> security]
NoHandler == Handler("", FALSE, "", <<>>, <<>>, <<>>, <<>>, NoField, "", <<>>, <<>>)

Gateway(path, inSchema, handler, methods) ==
    [kind |-> "Gateway", path |-> path, path_format |-> path,
     include_in_schema |-> inSchema, handler |-> handler, methods |-> methods,
     routes |-> <<>>]
WebSocketGateway(path) ==
    [kind |-> "WebSocketGateway", path |-> path, path_format |-> path,
     include_in_schema |-> FALSE, handler |-> NoHandler, methods |-> <<>>,
     routes |-> <<>>]
Include(path, inSchema, rs) ==
    [kind |-> "Include", path |-> path, path_format |-> path,
     include_in_schema |-> inSchema, handler |-> NoHandler, methods |-> <<>>,
     routes |-> rs]

(***************************************************************************)
(* get_flat_params, get_fields_from_routes, get_definitions                *)
(***************************************************************************)

get_flat_params(h) ==
    h.path_params \o h.query_params \o h.cookie_params \o h.header_params

\* The loop of get_fields_from_routes from route i on: the body fields and the
\* request fields it collects.
RECURSIVE fields_loop(_, _, _)
fields_loop(rs, i, acc) ==
    IF i > Len(rs) THEN acc
    ELSE LET route == rs[i] IN
         IF route.include_in_schema /\ route.kind = "Include"
         THEN LET nested == fields_loop(route.routes, 1, [body |-> <<>>, request |-> <<>>])
              IN fields_loop(rs, i + 1,
                     [acc EXCEPT !.request = @ \o nested.body \o nested.request])
         ELSE IF route.include_in_schema /\ route.kind = "Gateway"
         THEN fields_loop(rs, i + 1,
                  [body |-> IF route.handler.data_field # NoField
                            THEN Append(acc.body, route.handler.data_field)
                            ELSE acc.body,
                   request |-> acc.request \o get_flat_params(route.handler)])
         ELSE fields_loop(rs, i + 1, acc)

get_fields_from_routes(rs) ==
    LET got == fields_loop(rs, 1, [body |-> <<>>, request |-> <<>>])
    IN got.body \o got.request

\* The definitions the schema generator produces: one per model a field names.
get_definitions(fields) ==
    [m \in {f.model : f \in Range(fields)} \ {""} |-> [title |-> m]]

(***************************************************************************)
(* The operation builders                                                  *)
(***************************************************************************)

get_openapi_operation_NoRecord(h, method, opids) ==
    [operation |-> ("summary" :> Or(h.summary, Title(h.name)))
                   @@ ("operationId" :> h.operation_id),
     operation_ids |-> opids,
     warnings |-> IF h.operation_id \in opids
                  THEN <<[operation_id |-> h.operation_id, function |-> h.name]>>
                  ELSE <<>>]
\* get_openapi_operation: the operation's head, the ids seen after it, and the
\* warnings it emits.
get_openapi_operation(h, method, opids) ==
    LET tagged == IF h.tags # <<>> THEN "tags" :> h.tags ELSE EmptyDict
        summed == DictSet(tagged, "summary", Or(h.summary, Title(h.name)))
        described == IF h.description # ""
                     THEN DictSet(summed, "description", h.description) ELSE summed
        ided == DictSet(described, "operationId", h.operation_id)
        operation == IF h.deprecated THEN DictSet(ided, "deprecated", TRUE) ELSE ided
    IN [operation |-> operation,
        operation_ids |-> opids \cup {h.operation_id},
        warnings |-> IF h.operation_id \in opids
                     THEN <<[operation_id |-> h.operation_id, function |-> h.name]>>
                     ELSE <<>>]

\* get_openapi_operation_parameters: one parameter dict per field in the schema.
RECURSIVE get_openapi_operation_parameters(_)
get_openapi_operation_parameters(all_route_params) ==
    IF all_route_params = <<>> THEN <<>>
    ELSE LET param == Head(all_route_params)
             rest == get_openapi_operation_parameters(Tail(all_route_params))
         IN IF ~param.include_in_schema THEN rest
            ELSE <<[name |-> param.alias, in |-> param.in_,
                    required |-> param.required, schema |-> param.id]>> \o rest

\* A dict that keeps insertion order, as a sequence of <<key, value>>: d[k] = v.
RECURSIVE OrderedSet(_, _, _)
OrderedSet(d, k, v) ==
    IF d = <<>> THEN <<<<k, v>>>>
    ELSE IF Head(d)[1] = k THEN <<<<k, v>>>> \o Tail(d)
    ELSE <<Head(d)>> \o OrderedSet(Tail(d), k, v)

\* {(param["in"], param["name"]): param for param in parameters [if required]},
\* written over the dict d.
RECURSIVE params_by_key(_, _, _)
params_by_key(parameters, onlyRequired, d) ==
    IF parameters = <<>> THEN d
    ELSE LET param == Head(parameters) IN
         params_by_key(Tail(parameters), onlyRequired,
             IF onlyRequired /\ ~param.required THEN d
             ELSE OrderedSet(d, <<param.in, param.name>>, param))

unique_parameters_LastWins(parameters) ==
    LET all_parameters == params_by_key(parameters, FALSE, <<>>)
    IN [i \in 1..Len(all_parameters) |-> all_parameters[i][2]]
\* all_parameters, updated with required_parameters, as list(....values())
unique_parameters(parameters) ==
    LET all_parameters == params_by_key(parameters, FALSE, <<>>)
        updated == params_by_key(parameters, TRUE, all_parameters)
    IN [i \in 1..Len(updated) |-> updated[i][2]]

\* get_openapi_operation_request_body: None, or the requestBody dict.
get_openapi_operation_request_body(data_field) ==
    IF data_field = NoField THEN PyNone
    ELSE LET request_data_oai == IF data_field.required THEN "required" :> TRUE
                                 ELSE EmptyDict
         IN DictSet(request_data_oai, "content",
                    data_field.media_type :> [schema |-> data_field.id])

\* bool(x) of None or a dict
DictTruthy(x) == x # PyNone /\ DOMAIN x # {}

\* The loop over handler.responses from entry i on, written into operation_responses.
RECURSIVE additional_responses(_, _, _)
additional_responses(rs, i, operation_responses) ==
    IF i > Len(rs) THEN operation_responses
    ELSE LET r == rs[i]
             upper == Upper(r.code)
             status_code_key == IF upper = "DEFAULT" THEN "default" ELSE upper
             openapi_response == DictGet(operation_responses, status_code_key, EmptyDict)
             status_text == Or(r.status_text,
                               Or(status_code_ranges(upper), http_client_responses(r.code)))
             description == Or(r.description,
                               Or(DictGet(openapi_response, "description", ""),
                                  Or(status_text, "Additional Response")))
             merged == DictSet(DictUpdate(openapi_response, "title" :> r.model),
                               "description", description)
         IN additional_responses(rs, i + 1,
                DictSet(operation_responses, status_code_key, merged))

validation_error_response ==
    [description |-> "Validation Error",
     content |-> [ref |-> REF_PREFIX, name |-> "HTTPValidationError"]]
validation_error_definitions ==
    [ValidationError |-> [title |-> "ValidationError"],
     HTTPValidationError |-> [title |-> "HTTPValidationError"]]

adds_validation_error_Only422(h, responses) ==
    /\ get_flat_params(h) # <<>> \/ h.data_field # NoField
    /\ http422 \notin DOMAIN responses
\* Whether the automatic 422 response is added to responses.
adds_validation_error(h, responses) ==
    /\ get_flat_params(h) # <<>> \/ h.data_field # NoField
    /\ ~\E status \in {http422, "4XX", "default"} : status \in DOMAIN responses

\* The operation with its "parameters", when the handler has any in the schema.
with_parameters(operation, h) ==
    LET parameters == get_openapi_operation_parameters(get_flat_params(h))
    IN IF parameters # <<>>
       THEN DictSet(operation, "parameters", unique_parameters(parameters))
       ELSE operation

with_request_body_AnyMethod(operation, method, h) ==
    LET request_data_oai == get_openapi_operation_request_body(h.data_field)
    IN IF DictTruthy(request_data_oai)
       THEN DictSet(operation, "requestBody", request_data_oai)
       ELSE operation
\* The operation with its "requestBody", for a method with a body.
with_request_body(operation, method, h) ==
    IF method \in METHODS_WITH_BODY
    THEN LET request_data_oai == get_openapi_operation_request_body(h.data_field)
         IN IF DictTruthy(request_data_oai)
            THEN DictSet(operation, "requestBody", request_data_oai)
            ELSE operation
    ELSE operation

\* The responses the handler declares: its status code, then its additional ones.
\* (route_response_media_type is None, so no media type schema is written.)
declared_responses(h) ==
    additional_responses(h.responses, 1,
        h.status_code :> ("description" :> h.response_description))

\* One pass of the loop of get_openapi_path, for one method: acc holds path,
\* security_schemes, definitions, operation_ids and the warnings emitted.
path_method(h, method, acc) ==
    LET head == get_openapi_operation(h, method, acc.operation_ids)
        security_definitions == [n \in Range(h.security) |-> [name |-> n]]
        withBody == with_request_body(with_parameters(head.operation, h), method, h)
        responses == declared_responses(h)
        add422 == adds_validation_error(h, responses)
        finalResponses == IF add422
                          THEN DictSet(responses, http422, validation_error_response)
                          ELSE responses
        operation == DictSet(withBody, "responses", finalResponses)
    IN [path |-> DictSet(acc.path, Lower(method), operation),
        security_schemes |-> DictUpdate(acc.security_schemes, security_definitions),
        definitions |-> IF add422 /\ "ValidationError" \notin DOMAIN acc.definitions
                        THEN DictUpdate(acc.definitions, validation_error_definitions)
                        ELSE acc.definitions,
        operation_ids |-> head.operation_ids,
        warnings |-> acc.warnings \o head.warnings]

RECURSIVE path_methods(_, _, _, _)
path_methods(h, methods, i, acc) ==
    IF i > Len(methods) THEN acc
    ELSE path_methods(h, methods, i + 1, path_method(h, methods[i], acc))

get_openapi_path_GatewayOnly(route, opids) ==
    LET empty == [path |-> EmptyDict, security_schemes |-> EmptyDict,
                  definitions |-> EmptyDict, operation_ids |-> opids,
                  warnings |-> <<>>]
    IN IF ~route.include_in_schema THEN empty
       ELSE path_methods(route.handler, route.methods, 1, empty)
\* get_openapi_path: the path item, security schemes and definitions of a gateway,
\* with the operation ids seen after it and the warnings it emitted.
get_openapi_path(route, opids) ==
    LET empty == [path |-> EmptyDict, security_schemes |-> EmptyDict,
                  definitions |-> EmptyDict, operation_ids |-> opids,
                  warnings |-> <<>>]
    IN IF ~route.include_in_schema \/ ~route.handler.include_in_schema THEN empty
       ELSE path_methods(route.handler, route.methods, 1, empty)

OpenapiIdle ==
    /\ routes = <<>>
    /\ pc = "idle"
    /\ stack = <<>>
    /\ all_fields = <<>>
    /\ definitions = EmptyDict
    /\ components = EmptyDict
    /\ paths = EmptyDict
    /\ operation_ids = {}
    /\ warnings = <<>>
    /\ output = EmptyDict

InitInclude ==
    /\ arg \in ArgValues
    /\ pattern \in PatternValues
    /\ sys_modules \in [ModuleNames -> [AttrNames -> AttrValues]]
    /\ imported = {}
    /\ outcome = Pending
    /\ OpenapiIdle

CallInclude ==
    /\ outcome = Pending
    /\ outcome' = include(arg, pattern, sys_modules)
    /\ imported' = imported \cup include_imports(arg, sys_modules)
    /\ UNCHANGED <<arg, pattern, sys_modules>>
    /\ UNCHANGED openapiVars

NextInclude == CallInclude

SpecInclude == InitInclude /\ [][NextInclude]_vars

(***************************************************************************)
(* The route trees get_openapi is given                                    *)
(***************************************************************************)

QueryQ == Field("q", "query", "q", FALSE, TRUE, "", "")
PathId == Field("id", "path", "id", TRUE, TRUE, "", "")
ItemBody == Field("item", "body", "data", TRUE, TRUE, "application/json", "Item")
SecretBody == Field("secret", "body", "data", TRUE, TRUE, "application/json", "Secret")

ListItems == Handler("list_items", TRUE, "items", <<>>, <<QueryQ>>, <<>>, <<>>,
                     NoField, "200", <<>>, <<>>)
CreateItem == Handler("create_item", TRUE, "items", <<PathId>>, <<>>, <<>>, <<>>,
                      ItemBody, "201", <<>>, <<"bearer">>)
Ping == Handler("ping", TRUE, "ping", <<>>, <<>>, <<>>, <<>>, NoField, "200", <<>>, <<>>)
Secret == Handler("secret", FALSE, "items", <<PathId>>, <<>>, <<>>, <<>>, SecretBody,
                  "200", <<>>, <<"apikey">>)

Gateways ==
    { Gateway(PathX, TRUE, ListItems, <<"GET">>),
      Gateway(PathX, TRUE, CreateItem, <<"POST", "GET">>),
      Gateway(PathAX, TRUE, Ping, <<"GET", "OPTIONS">>),
      Gateway(PathX, FALSE, CreateItem, <<"POST", "GET">>),
      Gateway(PathX, TRUE, Secret, <<"GET">>) }
Leaves == Gateways \cup {WebSocketGateway(PathX)}
IncludeHeads == {<<PathA, TRUE>>, <<PathA, FALSE>>, <<PathB, TRUE>>, <<PathASlash, TRUE>>}

MaxNodes == 3

\* The route lists of exactly n routes in all, nested ones counted.
RECURSIVE Forests(_)
Trees(n) ==
    IF n = 1 THEN Leaves
    ELSE {Include(h[1], h[2], f) : h \in IncludeHeads, f \in Forests(n - 1)}
Forests(n) ==
    IF n = 0 THEN {<<>>}
    ELSE UNION {{<<t>> \o f : t \in Trees(k), f \in Forests(n - k)} : k \in 1..n}

RouteTrees == UNION {Forests(n) : n \in 1..MaxNodes}

(***************************************************************************)
(* get_openapi                                                             *)
(***************************************************************************)

IncludeIdle ==
    /\ arg = PyNone
    /\ pattern = Omitted
    /\ sys_modules = EmptyDict
    /\ imported = {}
    /\ outcome = Pending

InitOpenapi ==
    /\ pc = "start"
    /\ stack = <<>>
    /\ all_fields = <<>>
    /\ definitions = EmptyDict
    /\ components = EmptyDict
    /\ paths = EmptyDict
    /\ operation_ids = {}
    /\ warnings = <<>>
    /\ output = EmptyDict
    /\ IncludeIdle

Init ==
    /\ routes \in RouteTrees
    /\ InitOpenapi

Frame(rs, prefix) == [routes |-> rs, i |-> 1, prefix |-> prefix]
Top == stack[Len(stack)]
AtRoute == pc = "iterate" /\ stack # <<>> /\ Top.i <= Len(Top.routes)
CurrentRoute == Top.routes[Top.i]
Advanced == [stack EXCEPT ![Len(stack)].i = @ + 1]

\* The prefix iterate_routes is called with for the routes of an Include.
nested_prefix(prefix, route) == route.path

\* The key a gateway's path item is stored under.
route_path(prefix, route) == clean_path(prefix \o route.path_format)

merge_path_Replace(ps, key, path) == DictSet(ps, key, path)
\* paths.setdefault(route_path, {}).update(path)
merge_path(ps, key, path) == DictSet(ps, key, DictUpdate(DictGet(ps, key, EmptyDict), path))

\* components.setdefault("securitySchemes", {}).update(security_schemes)
merge_security(cs, security_schemes) ==
    DictSet(cs, "securitySchemes",
            DictUpdate(DictGet(cs, "securitySchemes", EmptyDict), security_schemes))

merge_definitions_Dropped(defs, path_definitions) == defs
\* definitions.update(path_definitions)
merge_definitions(defs, path_definitions) == DictUpdate(defs, path_definitions)

\* get_openapi up to the first call of iterate_routes.
Start ==
    /\ pc = "start"
    /\ all_fields' = get_fields_from_routes(routes)
    /\ definitions' = get_definitions(get_fields_from_routes(routes))
    /\ components' = EmptyDict
    /\ paths' = EmptyDict
    /\ operation_ids' = {}
    /\ stack' = <<Frame(routes, <<>>)>>
    /\ pc' = "iterate"
    /\ UNCHANGED <<routes, warnings, output>>
    /\ UNCHANGED includeVars

\* iterate_routes at an Include: the nested call.
EnterInclude ==
    /\ AtRoute
    /\ CurrentRoute.kind = "Include"
    /\ stack' = Append(Advanced, Frame(CurrentRoute.routes,
                                       nested_prefix(Top.prefix, CurrentRoute)))
    /\ UNCHANGED <<routes, pc, all_fields, definitions, components, paths,
                   operation_ids, warnings, output>>
    /\ UNCHANGED includeVars

\* iterate_routes at a Gateway: get_openapi_path and the merge of its result.
VisitGateway ==
    /\ AtRoute
    /\ CurrentRoute.kind = "Gateway"
    /\ LET result == get_openapi_path(CurrentRoute, operation_ids) IN
         /\ paths' = IF result.path # EmptyDict
                     THEN merge_path(paths, route_path(Top.prefix, CurrentRoute),
                                     result.path)
                     ELSE paths
         /\ components' = IF result.security_schemes # EmptyDict
                          THEN merge_security(components, result.security_schemes)
                          ELSE components
         /\ definitions' = IF result.definitions # EmptyDict
                           THEN merge_definitions(definitions, result.definitions)
                           ELSE definitions
         /\ operation_ids' = result.operation_ids
         /\ warnings' = warnings \o result.warnings
    /\ stack' = Advanced
    /\ UNCHANGED <<routes, pc, all_fields, output>>
    /\ UNCHANGED includeVars

\* iterate_routes at a route that is neither an Include nor a Gateway.
SkipRoute ==
    /\ AtRoute
    /\ CurrentRoute.kind \notin {"Include", "Gateway"}
    /\ stack' = Advanced
    /\ UNCHANGED <<routes, pc, all_fields, definitions, components, paths,
                   operation_ids, warnings, output>>
    /\ UNCHANGED includeVars

\* iterate_routes returns: to the enclosing call, or to get_openapi.
ReturnRoutes ==
    /\ pc = "iterate"
    /\ stack # <<>>
    /\ Top.i > Len(Top.routes)
    /\ stack' = SubSeq(stack, 1, Len(stack) - 1)
    /\ pc' = IF Len(stack) = 1 THEN "assemble" ELSE "iterate"
    /\ UNCHANGED <<routes, all_fields, definitions, components, paths,
                   operation_ids, warnings, output>>
    /\ UNCHANGED includeVars

\* components["schemas"], in sorted key order (a dict does not tell the order apart)
with_schemas(cs, defs) == IF defs # EmptyDict THEN DictSet(cs, "schemas", defs) ELSE cs

\* get_openapi after the walk: the document.
Finish ==
    /\ pc = "assemble"
    /\ components' = with_schemas(components, definitions)
    /\ output' = LET base == [openapi |-> "3.1.0", paths |-> paths]
                 IN IF components' # EmptyDict
                    THEN DictSet(base, "components", components') ELSE base
    /\ pc' = "done"
    /\ UNCHANGED <<routes, stack, all_fields, definitions, paths, operation_ids,
                   warnings>>
    /\ UNCHANGED includeVars

Next ==
    \/ Start
    \/ EnterInclude
    \/ VisitGateway
    \/ SkipRoute
    \/ ReturnRoutes
    \/ Finish

Spec == Init /\ [][Next]_vars

(***************************************************************************)
(* The single-gateway route trees: handlers in every shape                 *)
(***************************************************************************)

MaxParams == 2
MaxResponses == 2

\* The sequences over S of at most n elements, and those without a repeat.
RECURSIVE SeqsUpTo(_, _)
SeqsUpTo(S, n) ==
    IF n = 0 THEN {<<>>}
    ELSE SeqsUpTo(S, n - 1) \cup
         {Append(q, x) : q \in {r \in SeqsUpTo(S, n - 1) : Len(r) = n - 1}, x \in S}
DistinctSeqsUpTo(S, n) ==
    {q \in SeqsUpTo(S, n) : \A i, j \in 1..Len(q) : i # j => q[i] # q[j]}

QueryPool ==
    {Field(id, "query", "q", req, inc, "", "") :
        id \in {"q1", "q2"}, req \in BOOLEAN, inc \in BOOLEAN}
    \cup {Field("p", "query", "p", TRUE, TRUE, "", "")}
HeaderQ == Field("hq", "header", "q", TRUE, TRUE, "", "")
CookieQ == Field("cq", "cookie", "q", FALSE, TRUE, "", "")
HiddenQ == Field("q0", "query", "q", TRUE, FALSE, "", "")
FormBody == Field("form", "body", "data", FALSE, TRUE, "multipart/form-data", "Form")

ParamHandlers ==
    {Handler("list_items", TRUE, "items", pp, qp, cp, hp, NoField, "200", <<>>, <<>>) :
        pp \in {<<>>, <<PathId>>}, qp \in SeqsUpTo(QueryPool, MaxParams),
        cp \in {<<>>, <<CookieQ>>}, hp \in {<<>>, <<HeaderQ>>}}

ResponsePool ==
    {Response("404", "", "NotFound"), Response("422", "Custom", "Problem"),
     Response("4xx", "", "Problem"), Response("4XX", "Client", "Problem"),
     Response("default", "", "Problem"), Response("DEFAULT", "Fallback", "Problem")}

ResponseHandlers ==
    {Handler("create_item", TRUE, "items", <<>>, qp, <<>>, <<>>, data, status, rs, <<>>) :
        qp \in {<<>>, <<QueryQ>>, <<HiddenQ>>}, data \in {NoField, ItemBody, FormBody},
        status \in {"200", "422"}, rs \in DistinctSeqsUpTo(ResponsePool, MaxResponses)}

OpGateways ==
    {Gateway(PathX, TRUE, h, <<"GET">>) : h \in ParamHandlers}
    \cup {Gateway(PathX, TRUE, h, ms) :
             h \in ResponseHandlers, ms \in {<<"GET">>, <<"POST", "OPTIONS">>, <<"OPTIONS">>}}

OpTrees ==
    {<<g>> : g \in OpGateways}
    \cup {<<Include(PathA, TRUE, <<WebSocketGateway(PathX), g>>)>> : g \in OpGateways}

InitOp ==
    /\ routes \in OpTrees
    /\ InitOpenapi

SpecOp == InitOp /\ [][Next]_vars

(***************************************************************************)
(* Claims about include()                                                  *)
(***************************************************************************)

\* The attribute a call names: the pattern argument, or, when it is left out, None
\* or empty, the default.
NamedAttr == IF pattern = Omitted \/ ~Truthy(pattern) THEN DEFAULT_PATTERN
             ELSE pattern.items[1]
ArgIsModule == arg.type = "str" /\ Truthy(arg) /\ arg.items[1] \in DOMAIN sys_modules
ArgModule == sys_modules[arg.items[1]]
OnlyRouterPatterns ==
    /\ ArgIsModule
    /\ ArgModule["router_patterns"].type = "list"
    /\ Truthy(ArgModule["router_patterns"])
    /\ \A a \in AttrNames \ {"router_patterns"} : ArgModule[a] = Absent

\* C1: called with a module path and no pattern (or pattern=None), include() reads
\* the module attribute `router_patterns`: a module that defines only a non-empty
\* list `router_patterns` is accepted and that list is returned.
C1_DefaultReadsRouterPatterns ==
    (outcome # Pending /\ pattern \in {Omitted, PyNone} /\ OnlyRouterPatterns)
        => outcome = Returned(ArgModule["router_patterns"])

\* C2 as stated: exactly four outcomes, decided in order: a non-string arg raises
\* ImproperlyConfigured with no import attempted; an absent or falsy attribute
\* raises ImproperlyConfigured; a truthy non-list raises ImproperlyConfigured;
\* otherwise that very list is returned.
C2_FourOutcomes ==
    outcome # Pending =>
        /\ outcome.kind = "raise" => outcome.exc = "ImproperlyConfigured"
        /\ arg.type # "str" => (outcome.kind = "raise" /\ imported = {})
        /\ outcome.kind = "return" =>
              /\ ArgIsModule
              /\ outcome.value = ArgModule[NamedAttr]
              /\ outcome.value.type = "list"
              /\ Truthy(outcome.value)
        /\ (ArgIsModule /\ outcome.kind = "raise") =>
              \/ ArgModule[NamedAttr] = Absent
              \/ ~Truthy(ArgModule[NamedAttr])
              \/ ArgModule[NamedAttr].type # "list"

\* C2 as amended: five outcomes, decided in order: (1) a non-string arg raises
\* ImproperlyConfigured and no import is attempted; (2) a string that names no
\* importable module lets the import's own exception propagate; (3) an absent or
\* falsy attribute raises ImproperlyConfigured; (4) a truthy non-list raises
\* ImproperlyConfigured; (5) otherwise that very list is returned unchanged.
\* A non-list or an empty list is never returned.
C2_Outcomes ==
    outcome # Pending =>
        IF arg.type # "str"
        THEN outcome = Raised("ImproperlyConfigured") /\ imported = {}
        ELSE /\ imported = {arg}
             /\ IF ~ArgIsModule
                THEN /\ outcome.kind = "raise"
                     /\ outcome.exc \in {"ModuleNotFoundError", "ValueError"}
                ELSE IF ArgModule[NamedAttr] = Absent \/ ~Truthy(ArgModule[NamedAttr])
                THEN outcome = Raised("ImproperlyConfigured")
                ELSE IF ArgModule[NamedAttr].type # "list"
                THEN outcome = Raised("ImproperlyConfigured")
                ELSE /\ outcome = Returned(ArgModule[NamedAttr])
                     /\ Len(outcome.value.items) > 0

\* A call that named its own attribute and got the list back.
C2_Witness ==
    /\ outcome.kind = "return"
    /\ pattern = PyStr("myapp_urls")
    /\ ArgModule["route_patterns"] = PyTuple(<<"r1">>)

(***************************************************************************)
(* Claims about get_openapi: the walk over the route tree                  *)
(***************************************************************************)

Visible(g) == g.kind = "Gateway" /\ g.include_in_schema /\ g.handler.include_in_schema
Contributes(g) == get_openapi_path(g, {}).path # EmptyDict
\* The path item get_openapi_path builds for a gateway, whatever ids were seen.
PathItemOf(g) == get_openapi_path(g, {}).path

\* The gateways of a route list in the order the walk visits them, each with the
\* paths of its enclosing Includes (outermost first) and the key it is stored under.
RECURSIVE Visits(_, _, _)
Visits(rs, enclosing, prefix) ==
    IF rs = <<>> THEN <<>>
    ELSE LET r == Head(rs)
             here == IF r.kind = "Include"
                     THEN Visits(r.routes, Append(enclosing, r.path),
                                 nested_prefix(prefix, r))
                     ELSE IF r.kind = "Gateway"
                     THEN <<[gateway |-> r, enclosing |-> enclosing,
                             key |-> route_path(prefix, r)]>>
                     ELSE <<>>
         IN here \o Visits(Tail(rs), enclosing, prefix)
AllVisits == Visits(routes, <<>>, <<>>)

RECURSIVE Concat(_)
Concat(ps) == IF ps = <<>> THEN <<>> ELSE Head(ps) \o Concat(Tail(ps))

HasAutomatic422(operation) ==
    /\ http422 \in DOMAIN operation["responses"]
    /\ operation["responses"][http422] = validation_error_response
Operations(ps) == UNION {{<<k, m>> : m \in DOMAIN ps[k]} : k \in DOMAIN ps}
Automatic422s(ps) == {km \in Operations(ps) : HasAutomatic422(ps[km[1]][km[2]])}

\* C3: every Gateway that contributes an operation, at any depth under Includes,
\* has its handler's data field and all of its path, query, cookie and header
\* parameters in the list get_fields_from_routes returned.
C3_FieldsCoverContributors ==
    (AtRoute /\ CurrentRoute.kind = "Gateway" /\ Contributes(CurrentRoute)) =>
        LET h == CurrentRoute.handler IN
        /\ h.data_field # NoField => h.data_field \in Range(all_fields)
        /\ \A f \in Range(get_flat_params(h)) : f \in Range(all_fields)

\* C4: whenever an operation of the document carries the automatic validation-error
\* response, the definitions hold both HTTPValidationError and ValidationError, and
\* the finished document has each of them once under components.schemas.
C4_ValidationComponentsClosed ==
    /\ Automatic422s(paths) # {} =>
          {"HTTPValidationError", "ValidationError"} \subseteq DOMAIN definitions
    /\ (pc = "done" /\ Automatic422s(output["paths"]) # {}) =>
          /\ "components" \in DOMAIN output
          /\ "schemas" \in DOMAIN output["components"]
          /\ \A n \in {"HTTPValidationError", "ValidationError"} :
                /\ Cardinality({k \in DOMAIN output["components"]["schemas"] : k = n}) = 1
                /\ output["components"]["schemas"][n] = validation_error_definitions[n]

\* Two routes triggered the automatic response, under different path keys.
C4_Witness ==
    /\ pc = "done"
    /\ \E a, b \in Automatic422s(output["paths"]) : a[1] # b[1]

\* C5: the paths map is the last-wins fold over the traversal order: every method of
\* every visible gateway has an operation under the gateway's path key; the path item
\* of a key has the methods of all the gateways that share it, and no others; and the
\* operation under a key and method is that of the last gateway visited with them.
C5_PathsLastWins ==
    pc = "done" =>
        LET vs == AllVisits
            shown == {i \in 1..Len(vs) : Visible(vs[i].gateway)}
            Has(i, k, m) == /\ vs[i].key = k
                            /\ \E n \in Range(vs[i].gateway.methods) : Lower(n) = m
        IN /\ \A i \in shown : \A n \in Range(vs[i].gateway.methods) :
                 /\ vs[i].key \in DOMAIN paths
                 /\ Lower(n) \in DOMAIN paths[vs[i].key]
           /\ \A km \in Operations(paths) :
                 /\ \E i \in shown : Has(i, km[1], km[2])
                 /\ LET last == CHOOSE i \in shown :
                                   /\ Has(i, km[1], km[2])
                                   /\ \A j \in shown : Has(j, km[1], km[2]) => j <= i
                    IN paths[km[1]][km[2]] = PathItemOf(vs[last].gateway)[km[2]]
           /\ \A k \in DOMAIN paths : DOMAIN paths[k] # {}

\* Under /x, the later list_items replaced the get of create_item and kept its post.
C5_Witness ==
    /\ pc = "done"
    /\ PathX \in DOMAIN paths
    /\ DOMAIN paths[PathX] = {"get", "post"}
    /\ paths[PathX]["get"]["summary"] = "List Items"
    /\ paths[PathX]["post"]["summary"] = "Create Item"

\* C6: the key of a gateway nested under Includes is the cleaned concatenation of the
\* paths of all the enclosing Includes, outermost first, followed by its path_format,
\* at every nesting depth.
C6_KeyHasEveryPrefix ==
    pc = "done" =>
        \A i \in 1..Len(AllVisits) :
            LET v == AllVisits[i]
                key == clean_path(Concat(v.enclosing) \o v.gateway.path_format)
            IN (Visible(v.gateway) /\ v.gateway.methods # <<>>) =>
                  /\ key \in DOMAIN paths
                  /\ \A n \in Range(v.gateway.methods) : Lower(n) \in DOMAIN paths[key]

Hidden(g) == g.kind = "Gateway" /\ (~g.include_in_schema \/ ~g.handler.include_in_schema)

EmittedOperations ==
    LET vs == AllVisits
        shown == {i \in 1..Len(vs) : Visible(vs[i].gateway)}
        Has(i, k, m) == /\ vs[i].key = k
                        /\ \E n \in Range(vs[i].gateway.methods) : Lower(n) = m
        Last(k, m) == CHOOSE i \in shown :
                          /\ Has(i, k, m)
                          /\ \A j \in shown : Has(j, k, m) => j <= i
    IN {[operation |-> paths[km[1]][km[2]],
         handler |-> vs[Last(km[1], km[2])].gateway.handler,
         method |-> CHOOSE n \in Range(vs[Last(km[1], km[2])].gateway.methods) :
                        Lower(n) = km[2]] : km \in Operations(paths)}

ParamKey(f) == <<f.in_, f.alias>>
InSchema(h) == SelectSeq(get_flat_params(h), LAMBDA f : f.include_in_schema)
\* Of the fields fs, the one kept for the key k: the last required one, or the last.
KeptField(fs, k) ==
    LET same == {i \in 1..Len(fs) : ParamKey(fs[i]) = k}
        required == {i \in same : fs[i].required}
        Max(S) == CHOOSE i \in S : \A j \in S : j <= i
    IN fs[IF required # {} THEN Max(required) ELSE Max(same)]

\* C8: the parameters of an operation have one entry per (in, name) pair and only
\* parameters in the schema; of the parameters that share a pair the entry kept is
\* the last required one in path, query, cookie, header order, or the last one when
\* none is required; the key is absent when no parameter is in the schema.
C8_ParametersUnique ==
    pc = "done" =>
        \A e \in EmittedOperations :
            LET fs == InSchema(e.handler) IN
            /\ "parameters" \in DOMAIN e.operation <=> fs # <<>>
            /\ "parameters" \in DOMAIN e.operation =>
                  LET ps == e.operation["parameters"] IN
                  /\ \A i, j \in 1..Len(ps) :
                        (ps[i].in = ps[j].in /\ ps[i].name = ps[j].name) => i = j
                  /\ \A i \in 1..Len(ps) :
                        /\ \E f \in Range(fs) : ParamKey(f) = <<ps[i].in, ps[i].name>>
                        /\ LET kept == KeptField(fs, <<ps[i].in, ps[i].name>>) IN
                             /\ ps[i].schema = kept.id
                             /\ ps[i].required = kept.required
                  /\ \A f \in Range(fs) :
                        \E i \in 1..Len(ps) : ParamKey(f) = <<ps[i].in, ps[i].name>>

\* A required query q comes before an optional query q, a hidden one and a header q:
\* the entries are the required query q and the header q.
C8_Witness ==
    /\ pc = "done"
    /\ \E e \in EmittedOperations :
          /\ e.handler.query_params =
                <<Field("q1", "query", "q", TRUE, TRUE, "", ""),
                  Field("q2", "query", "q", FALSE, TRUE, "", "")>>
          /\ e.handler.header_params = <<HeaderQ>>
          /\ e.handler.path_params = <<>>
          /\ e.handler.cookie_params = <<>>
          /\ Len(e.operation["parameters"]) = 2
          /\ e.operation["parameters"][1].schema = "q1"

\* The response keys a handler declares: its status code and its additional
\* responses, upper-cased, "DEFAULT" being "default".
DeclaredKeys(h) ==
    {h.status_code} \cup
    {IF Upper(r.code) = "DEFAULT" THEN "default" ELSE Upper(r.code) : r \in Range(h.responses)}
GuardKeys == {http422, "4XX", "default"}

\* C9: an operation has the automatic "422" response, described "Validation Error"
\* and referring to HTTPValidationError, exactly when its handler has a parameter
\* or a data field and declares none of "422", "4XX" and "default"; a response
\* declared under one of these keys is never the automatic one.
C9_ValidationErrorResponse ==
    pc = "done" =>
        \A e \in EmittedOperations :
            LET h == e.handler
                responses == e.operation["responses"]
            IN /\ HasAutomatic422(e.operation) <=>
                     /\ get_flat_params(h) # <<>> \/ h.data_field # NoField
                     /\ DeclaredKeys(h) \cap GuardKeys = {}
               /\ HasAutomatic422(e.operation) =>
                     /\ responses[http422]["description"] = "Validation Error"
                     /\ responses[http422]["content"]["name"] = "HTTPValidationError"
               /\ DOMAIN responses =
                     DeclaredKeys(h) \cup (IF HasAutomatic422(e.operation) THEN {http422} ELSE {})
               /\ \A k \in DeclaredKeys(h) \cap GuardKeys :
                     /\ responses[k] # validation_error_response
                     /\ "content" \notin DOMAIN responses[k]

\* A handler with a data field that declares "4xx" only: no automatic response.
C9_Witness ==
    /\ pc = "done"
    /\ \E e \in EmittedOperations :
          /\ e.handler.data_field = ItemBody
          /\ e.handler.status_code = "200"
          /\ e.handler.responses = <<Response("4xx", "", "Problem")>>
          /\ DOMAIN e.operation["responses"] = {"200", "4XX"}

\* C10: an operation has a requestBody exactly when its method is in
\* METHODS_WITH_BODY and its handler has a data field; the requestBody has one
\* content entry, keyed by the data field's media type, and the key required
\* exactly when the data field is required.
C10_RequestBody ==
    pc = "done" =>
        \A e \in EmittedOperations :
            LET data == e.handler.data_field IN
            /\ "requestBody" \in DOMAIN e.operation <=>
                  (e.method \in METHODS_WITH_BODY /\ data # NoField)
            /\ "requestBody" \in DOMAIN e.operation =>
                  LET body == e.operation["requestBody"] IN
                  /\ DOMAIN body["content"] = {data.media_type}
                  /\ Cardinality(DOMAIN body["content"]) = 1
                  /\ "required" \in DOMAIN body <=> data.required
                  /\ "required" \in DOMAIN body => body["required"] = TRUE

\* A gateway for POST and OPTIONS whose handler has an optional form body: the post
\* operation has the requestBody, without required, and the options operation none.
C10_Witness ==
    /\ pc = "done"
    /\ \E e1, e2 \in EmittedOperations :
          /\ e1.handler = e2.handler
          /\ e1.handler.data_field = FormBody
          /\ e1.method = "POST"
          /\ e2.method = "OPTIONS"
          /\ DOMAIN e1.operation["requestBody"] = {"content"}
          /\ "requestBody" \notin DOMAIN e2.operation

(***************************************************************************)
(* Claims about get_openapi: the operation ids                             *)
(***************************************************************************)

\* The operations built in a call, in the order they are built: one per method of
\* every visible gateway, in the order of the walk.
BuiltOperations ==
    Concat([i \in 1..Len(AllVisits) |->
               LET g == AllVisits[i].gateway IN
               IF Visible(g)
               THEN [n \in 1..Len(g.methods) |->
                        [operation_id |-> g.handler.operation_id,
                         function |-> g.handler.name,
                         key |-> AllVisits[i].key,
                         method |-> g.methods[n]]]
               ELSE <<>>])
SeenBefore(ops, i) == \E j \in 1..(i - 1) : ops[j].operation_id = ops[i].operation_id
Duplicates(ops) == {i \in 1..Len(ops) : SeenBefore(ops, i)}

\* C11: in a call, which starts with no operation id seen, a duplicate-id warning is
\* emitted for an operation exactly when its id was recorded by an operation built
\* earlier in the call; the operation is still built with that operationId; after
\* the call the seen ids are the operationIds of all the operations built; and with
\* no warning emitted the operations built have pairwise distinct operationIds.
C11_DuplicateIdWarnings ==
    /\ pc = "start" => (operation_ids = {} /\ warnings = <<>>)
    /\ (AtRoute /\ Visible(CurrentRoute)) =>
          LET result == get_openapi_path(CurrentRoute, operation_ids) IN
          \A n \in Range(CurrentRoute.methods) :
              /\ Lower(n) \in DOMAIN result.path
              /\ result.path[Lower(n)]["operationId"] = CurrentRoute.handler.operation_id
    /\ pc = "done" =>
          LET ops == BuiltOperations IN
          /\ Len(warnings) = Cardinality(Duplicates(ops))
          /\ \A i \in 1..Len(ops) :
                SeenBefore(ops, i) <=>
                    \E w \in 1..Len(warnings) :
                        /\ warnings[w] = [operation_id |-> ops[i].operation_id,
                                          function |-> ops[i].function]
                        /\ w = Cardinality({j \in Duplicates(ops) : j <= i})
          /\ operation_ids = {ops[i].operation_id : i \in 1..Len(ops)}
          /\ warnings = <<>> =>
                \A i, j \in 1..Len(ops) :
                    ops[i].operation_id = ops[j].operation_id => i = j

\* list_items was built without a warning, then create_item, whose id list_items
\* had recorded, with one warning per method; all three are in the document.
C11_Witness ==
    /\ pc = "done"
    /\ Len(warnings) = 2
    /\ warnings[1] = [operation_id |-> "items", function |-> "create_item"]
    /\ operation_ids = {"items"}
    /\ Len(BuiltOperations) = 3
    /\ BuiltOperations[1].function = "list_items"
    /\ BuiltOperations[1].key # BuiltOperations[2].key
    /\ \E k \in DOMAIN paths :
          /\ "post" \in DOMAIN paths[k]
          /\ paths[k]["post"]["operationId"] = "items"

====
